---- MODULE Spec2Model ----
(***************************************************************************)
(* The canvas document store (src/src/store/canvasStore.ts, useCanvasStore) *)
(* with its snapshot history, and the Canvas component                      *)
(* (src/src/components/Canvas.tsx): its selection handlers and the effect   *)
(* that reconciles the fabric drawing surface with the node collection.     *)
(*                                                                          *)
(* Geometry is fixed point: one pixel is Px units, so that the means and    *)
(* the halves alignNodes computes from whole pixels are exact. Opacity is   *)
(* in hundredths (100 is fully opaque).                                     *)
(***************************************************************************)
EXTENDS Integers, Sequences, FiniteSets, TLC

\* ------------------------------------------------------------------ bounds
\* Most ids the id generator hands out in the bounded specifications.
MaxIds == 2
\* Deepest history position the general specifications write to.
MaxDepth == 3
\* Most loadProject requests issued.
MaxRequests == 2
\* Most image loads the surface starts.
MaxLoads == 3
\* Most automatic generations started from picked pairs.
MaxGenerations == 2
\* Most generation workflows started while all three are in use.
MaxWorkflows == 1
\* Width in pixels of the strip the long-running specification drags a node along.
NudgeSpan == 3

\* ------------------------------------------------------- program constants
\* canvasStore.ts:434  "Keep only last 50 states"
HistoryLimit == 50
\* canvasStore.ts:309  const GAP = 20
GAP == 20
\* canvasStore.ts:289-290  x: node.x + 20, y: node.y + 20
DuplicateOffset == 20

\* Canvas.tsx:483-489  the prompts of handleDragDropGeneration
Variations == 5

\* Units per pixel.
Px == 2 * 3

Undefined == "undefined"
Null == "null"

NodeKeys ==
  {"id", "type", "assetId", "url", "x", "y", "width", "height",
   "rotation", "opacity", "locked", "zIndex"}

\* A node as the callers of addNode build it (Canvas.tsx:755-766, 804-815):
\* everything but id and zIndex.
NodeInput(type, url, x, y, w, h) ==
  [type |-> type, assetId |-> IF url = Undefined THEN Undefined ELSE "asset-" \o url,
   url |-> url, x |-> x * Px, y |-> y * Px, width |-> w * Px, height |-> h * Px,
   rotation |-> 0, opacity |-> 100, locked |-> FALSE]

NodeInputs ==
  { NodeInput("image", "a", 0, 0, 50, 50),
    NodeInput("image", "b", 200, 100, 80, 80) }

\* Partial updates as the callers of updateNode pass them: a drag
\* (Canvas.tsx:258-264, reduced to the position), the inspector's opacity
\* and lock controls (SimpleCanvas.tsx:240, 356).
UpdateInputs ==
  { [x |-> 10 * Px, y |-> 10 * Px],
    [opacity |-> 0],
    [locked |-> TRUE] }

\* Projects the persistence API serves; their nodes were created in earlier
\* sessions, so their ids are none of this session's.
ProjectIds == {"p1", "p2"}

\* The viewport saved with a project (canvasData.zoom, canvasData.pan).
ProjectZoom(pid) == IF pid = "p1" THEN 150 ELSE 100

ProjectPan(pid) == IF pid = "p1" THEN [x |-> 40 * Px, y |-> 0] ELSE [x |-> 0, y |-> 0]

ProjectNodes(pid) ==
  IF pid = "p1"
  THEN << [id |-> 101, type |-> "image", assetId |-> "asset-s", url |-> "s",
           x |-> 5 * Px, y |-> 5 * Px, width |-> 40 * Px, height |-> 40 * Px,
           rotation |-> 0, opacity |-> 100, locked |-> FALSE, zIndex |-> 0] >>
  ELSE << >>

\* ------------------------------------------------------------------- state
VARIABLES
  nodes,            \* CanvasStore.nodes
  selectedNodeIds,  \* CanvasStore.selectedNodeIds
  history,          \* CanvasStore.history (the snapshots; timestamps are never read)
  historyIndex,     \* CanvasStore.historyIndex, 0-based as in the source
  canvasMode,       \* CanvasStore.canvasMode
  currentProject,   \* CanvasStore.currentProject (its id, or Null)
  isLoading,        \* CanvasStore.isLoading
  error,            \* CanvasStore.error
  zoom,             \* CanvasStore.zoom, in hundredths
  pan,              \* CanvasStore.pan
  nextId,           \* the ids nanoid() has handed out so far, plus one
  requests,         \* loadProject calls awaiting apiClient.getProject
  nextRequest,      \* number of loadProject calls issued so far, plus one
  generations,      \* generation workflows awaiting the generation API
  nextGeneration,   \* number of generation workflows started so far, plus one
  isGenerating,     \* CanvasStore.isGenerating
  mounted,          \* whether a Canvas component is mounted
  handlerMode,      \* canvasMode as the closures of the mount effect captured it
  activeIds,        \* data.id of the objects in fabric's active object
  dirty,            \* nodes was set since the nodes-sync effect last ran
  autoDue,          \* a dependency of the auto-generation effect was set since it last ran
  objectMap,        \* objectMapRef.current: node id -> the drawable registered for it
  canvasObjects,    \* the drawables on the fabric canvas, by object identity
  loads,            \* image loads in flight (loadImageWithCORS, setSrc)
  nextLoad,         \* number of image loads started so far, plus one
  syncLog,          \* what the nodes-sync effect did when it last ran
  lastEvent,        \* the ids the last selection event carried
  lastOp,           \* the operation performed last
  pre               \* historyIndex and history.length before that operation

storeVars == <<nodes, selectedNodeIds, history, historyIndex>>
viewportVars == <<zoom, pan>>
uiVars == <<canvasMode, currentProject, isLoading, error, viewportVars>>
genVars == <<generations, nextGeneration, isGenerating>>
envVars == <<nextId, requests, nextRequest, genVars>>
surfaceVars == <<objectMap, canvasObjects, loads, nextLoad>>
viewVars == <<mounted, handlerMode, activeIds, surfaceVars, syncLog, lastEvent>>
vars == <<storeVars, uiVars, envVars, viewVars, dirty, autoDue, lastOp, pre>>

\* The part of the store the history engine reads and writes.
Doc == [nodes |-> nodes, selectedNodeIds |-> selectedNodeIds,
        history |-> history, historyIndex |-> historyIndex]

Record(op) ==
  lastOp' = op /\ pre' = [historyIndex |-> historyIndex, length |-> Len(history)]

\* The store notifies the mounted component; a new nodes array makes React run
\* the nodes-sync effect again (Canvas.tsx:691, deps [nodes]) and the
\* auto-generation effect (Canvas.tsx:439, deps [canvasMode, selectedNodeIds, nodes]).
Rerender(nodesSet) ==
  /\ dirty' = (dirty \/ (mounted /\ nodesSet))
  /\ autoDue' = (autoDue \/ (mounted /\ nodesSet))
  /\ UNCHANGED viewVars

\* The same after a new selectedNodeIds array was set and nodes was not.
Reselect ==
  /\ autoDue' = (autoDue \/ mounted)
  /\ UNCHANGED <<dirty, viewVars>>

\* ----------------------------------------------------------------- helpers
Includes(seq, v) == \E i \in 1..Len(seq) : seq[i] = v

Ids(ns) == { ns[i].id : i \in 1..Len(ns) }

Min(a, b) == IF a < b THEN a ELSE b

\* The CanvasNode fields that may be undefined (types.ts:26-27).
OptionalKeys == {"assetId", "url"}

\* JSON.stringify of one node: a key whose value is undefined is left out.
JsonStringifyNode(n) ==
  [k \in {k \in DOMAIN n : ~(k \in OptionalKeys /\ n[k] = Undefined)} |-> n[k]]

\* JSON.parse of one node, read back through the CanvasNode fields: a key
\* that is missing reads as undefined.
JsonParseNode(o) ==
  [k \in NodeKeys |-> IF k \in DOMAIN o THEN o[k] ELSE Undefined]

\* JSON.parse(JSON.stringify(nodes)): a fresh array of fresh objects.
JsonClone(ns) ==
  [i \in 1..Len(ns) |-> JsonParseNode(JsonStringifyNode(ns[i]))]

\* -------------------------------------------------------- history engine
\* saveHistory taking the new index before it evicts.
saveHistoryIndexBeforeShift(h, idx, ns) ==
  LET pushed == Append(SubSeq(h, 1, idx + 1), [nodes |-> JsonClone(ns)])
      kept == IF Len(pushed) > HistoryLimit THEN Tail(pushed) ELSE pushed
  IN [history |-> kept, historyIndex |-> Len(pushed) - 1]

\* saveHistory without the eviction.
saveHistoryNoShift(h, idx, ns) ==
  LET pushed == Append(SubSeq(h, 1, idx + 1), [nodes |-> JsonClone(ns)])
  IN [history |-> pushed, historyIndex |-> Len(pushed) - 1]

\* saveHistory pushing onto the whole history, redo tail included.
saveHistoryKeepTail(h, idx, ns) ==
  LET pushed == Append(h, [nodes |-> JsonClone(ns)])
      kept == IF Len(pushed) > HistoryLimit THEN Tail(pushed) ELSE pushed
  IN [history |-> kept, historyIndex |-> Len(kept) - 1]

\* saveHistory of a store that captures the empty document it starts with
\* before its first capture.
saveHistoryFromEmpty(h, idx, ns) ==
  LET start == IF h = << >> THEN << [nodes |-> << >>] >> ELSE SubSeq(h, 1, idx + 1)
      pushed == Append(start, [nodes |-> JsonClone(ns)])
      kept == IF Len(pushed) > HistoryLimit THEN Tail(pushed) ELSE pushed
  IN [history |-> kept, historyIndex |-> Len(kept) - 1]

\* saveHistory capturing only when the nodes differ from the current entry.
saveHistoryIfChanged(h, idx, ns) ==
  LET pushed == Append(SubSeq(h, 1, idx + 1), [nodes |-> JsonClone(ns)])
      kept == IF Len(pushed) > HistoryLimit THEN Tail(pushed) ELSE pushed
  IN IF idx >= 0 /\ h[idx + 1].nodes = ns
     THEN [history |-> h, historyIndex |-> idx]
     ELSE [history |-> kept, historyIndex |-> Len(kept) - 1]

\* saveHistory (canvasStore.ts:425-442), as a function of the history, the
\* index and the node collection it captures.
saveHistory(h, idx, ns) ==
  LET pushed == Append(SubSeq(h, 1, idx + 1), [nodes |-> JsonClone(ns)])
      kept == IF Len(pushed) > HistoryLimit THEN Tail(pushed) ELSE pushed
  IN [history |-> kept, historyIndex |-> Len(kept) - 1]

\* undo clearing the selection also when there is nothing to undo.
undoDocDeselects(d) ==
  IF d.historyIndex > 0
  THEN LET newIndex == d.historyIndex - 1
       IN [d EXCEPT !.nodes = JsonClone(d.history[newIndex + 1].nodes),
                    !.historyIndex = newIndex,
                    !.selectedNodeIds = << >>]
  ELSE [d EXCEPT !.selectedNodeIds = << >>]

\* undo stepping the index back while restoring the entry it was at.
undoDocOldIndex(d) ==
  IF d.historyIndex > 0
  THEN LET newIndex == d.historyIndex - 1
       IN [d EXCEPT !.nodes = JsonClone(d.history[d.historyIndex + 1].nodes),
                    !.historyIndex = newIndex,
                    !.selectedNodeIds = << >>]
  ELSE d

\* undo (canvasStore.ts:444-454) as a function of the document state.
undoDoc(d) ==
  IF d.historyIndex > 0
  THEN LET newIndex == d.historyIndex - 1
       IN [d EXCEPT !.nodes = JsonClone(d.history[newIndex + 1].nodes),
                    !.historyIndex = newIndex,
                    !.selectedNodeIds = << >>]
  ELSE d

\* redo restoring the entry at the old index instead of the new one.
redoDocOldIndex(d) ==
  IF d.historyIndex < Len(d.history) - 1
  THEN LET newIndex == d.historyIndex + 1
       IN [d EXCEPT !.nodes = JsonClone(d.history[d.historyIndex + 1].nodes),
                    !.historyIndex = newIndex,
                    !.selectedNodeIds = << >>]
  ELSE d

\* redo (canvasStore.ts:456-466) as a function of the document state.
redoDoc(d) ==
  IF d.historyIndex < Len(d.history) - 1
  THEN LET newIndex == d.historyIndex + 1
       IN [d EXCEPT !.nodes = JsonClone(d.history[newIndex + 1].nodes),
                    !.historyIndex = newIndex,
                    !.selectedNodeIds = << >>]
  ELSE d

SetDoc(d) ==
  /\ nodes' = d.nodes
  /\ selectedNodeIds' = d.selectedNodeIds
  /\ history' = d.history
  /\ historyIndex' = d.historyIndex

\* The commit of a store whose current history entry is the very array the
\* live nodes are: writing the nodes writes the entry too.
CommitAliased(ns, sel) ==
  LET shared == IF historyIndex >= 0
                THEN [history EXCEPT ![historyIndex + 1] = [nodes |-> ns]]
                ELSE history
      s == saveHistory(shared, historyIndex, ns)
  IN SetDoc([nodes |-> ns, selectedNodeIds |-> sel,
             history |-> s.history, historyIndex |-> s.historyIndex])

\* set({nodes, selectedNodeIds}) followed by get().saveHistory().
Commit(ns, sel) ==
  LET s == saveHistory(history, historyIndex, ns)
  IN SetDoc([nodes |-> ns, selectedNodeIds |-> sel,
             history |-> s.history, historyIndex |-> s.historyIndex])

\* ----------------------------------------------------------- store actions
EmptyMap == [k \in {} |-> 0]

\* The log of a nodes-sync run: the node ids whose drawable it removed, the
\* node ids whose drawable it wrote with set(), the node ids it started a
\* content load for (one entry per load).
\* seen is the node collection it ran on, fresh whether the surface is still as it
\* left it, repeat whether it ran on the same node collection as the run before
\* it with nothing done to the surface in between.
NoSync ==
  [removed |-> {}, written |-> {}, started |-> << >>,
   seen |-> << >>, fresh |-> FALSE, repeat |-> FALSE]

Init ==
  /\ nodes = << >>
  /\ selectedNodeIds = << >>
  /\ history = << >>
  /\ historyIndex = -1
  /\ canvasMode = "select"
  /\ currentProject = Null
  /\ isLoading = FALSE
  /\ error = Null
  /\ zoom = 100
  /\ pan = [x |-> 0, y |-> 0]
  /\ nextId = 1
  /\ requests = {}
  /\ nextRequest = 1
  /\ mounted = FALSE
  /\ handlerMode = "select"
  /\ activeIds = << >>
  /\ dirty = FALSE
  /\ autoDue = FALSE
  /\ generations = {}
  /\ nextGeneration = 1
  /\ isGenerating = FALSE
  /\ objectMap = EmptyMap
  /\ canvasObjects = EmptyMap
  /\ loads = {}
  /\ nextLoad = 1
  /\ syncLog = NoSync
  /\ lastEvent = << >>
  /\ lastOp = "init"
  /\ pre = [historyIndex |-> -1, length |-> 0]

\* addNode putting the new node under the others, at the front.
addNodeResultInFront(ns, inp, id) ==
  << [k \in NodeKeys |->
        IF k = "id" THEN id
        ELSE IF k = "zIndex" THEN Len(ns)
        ELSE inp[k]] >> \o ns

\* addNode (canvasStore.ts:221-230)
addNodeResult(ns, inp, id) ==
  Append(ns, [k \in NodeKeys |->
                IF k = "id" THEN id
                ELSE IF k = "zIndex" THEN Len(ns)
                ELSE inp[k]])

addNode(inp) ==
  /\ Commit(addNodeResult(nodes, inp, nextId), selectedNodeIds)
  /\ nextId' = nextId + 1
  /\ Record("addNode")
  /\ Rerender(TRUE)
  /\ UNCHANGED <<uiVars, requests, nextRequest, genVars>>

\* updateNode merging the fields into every node, without the test of the id.
updateNodeEvery(ns, id, updates) ==
  [i \in 1..Len(ns) |->
     [k \in NodeKeys |-> IF k \in DOMAIN updates THEN updates[k] ELSE ns[i][k]]]

\* updateNode (canvasStore.ts:232-239)
updateNodeResult(ns, id, updates) ==
  [i \in 1..Len(ns) |->
     IF ns[i].id = id
     THEN [k \in NodeKeys |-> IF k \in DOMAIN updates THEN updates[k] ELSE ns[i][k]]
     ELSE ns[i]]

updateNode(id, updates) ==
  /\ Commit(updateNodeResult(nodes, id, updates), selectedNodeIds)
  /\ Record("updateNode")
  /\ Rerender(TRUE)
  /\ UNCHANGED <<uiVars, envVars>>

\* deleteNode leaving the selection alone.
deleteNodeSelectionKept(sel, id) == sel

\* deleteNode (canvasStore.ts:241-247)
deleteNodeSelection(sel, id) == SelectSeq(sel, LAMBDA nid : nid # id)

deleteNode(id) ==
  /\ Commit(SelectSeq(nodes, LAMBDA n : n.id # id),
            deleteNodeSelection(selectedNodeIds, id))
  /\ Record("deleteNode")
  /\ Rerender(TRUE)
  /\ UNCHANGED <<uiVars, envVars>>

\* deleteSelectedNodes (canvasStore.ts:249-256)
deleteSelectedNodes ==
  /\ Commit(SelectSeq(nodes, LAMBDA n : ~Includes(selectedNodeIds, n.id)), << >>)
  /\ Record("deleteSelectedNodes")
  /\ Rerender(TRUE)
  /\ UNCHANGED <<uiVars, envVars>>

\* selectNode as it would be if a multi-select put the id in front of the
\* selection.
selectNodeResultInFront(sel, id, multi) ==
  IF multi
  THEN IF \E k \in 1..Len(sel) : sel[k] = id
       THEN SelectSeq(sel, LAMBDA nid : nid # id)
       ELSE << id >> \o sel
  ELSE << id >>

\* selectNode (canvasStore.ts:258-270)
selectNodeResult(sel, id, multi) ==
  IF multi
  THEN IF Includes(sel, id)
       THEN SelectSeq(sel, LAMBDA nid : nid # id)
       ELSE Append(sel, id)
  ELSE << id >>

selectNode(id, multi) ==
  /\ selectedNodeIds' = selectNodeResult(selectedNodeIds, id, multi)
  /\ Record("selectNode")
  /\ Reselect
  /\ UNCHANGED <<nodes, history, historyIndex, uiVars, envVars>>

\* selectNodes (canvasStore.ts:272-274)
selectNodes(ids) ==
  /\ selectedNodeIds' = ids
  /\ Record("selectNodes")
  /\ Reselect
  /\ UNCHANGED <<nodes, history, historyIndex, uiVars, envVars>>

\* clearSelection capturing the history, as if the selection were versioned.
clearSelectionCapturing ==
  /\ Commit(nodes, << >>)
  /\ Record("clearSelection")
  /\ Reselect
  /\ UNCHANGED <<uiVars, envVars>>

\* clearSelection (canvasStore.ts:276-278)
clearSelection ==
  /\ selectedNodeIds' = << >>
  /\ Record("clearSelection")
  /\ Reselect
  /\ UNCHANGED <<nodes, history, historyIndex, uiVars, envVars>>

\* duplicateSelected spreading the node without replacing its id.
duplicateSelectedSameId(ns, sel, firstId) ==
  LET selectedNodes == SelectSeq(ns, LAMBDA n : Includes(sel, n.id))
  IN [i \in 1..Len(selectedNodes) |->
        [selectedNodes[i] EXCEPT
           !.x = @ + DuplicateOffset * Px,
           !.y = @ + DuplicateOffset * Px,
           !.zIndex = Len(ns) + (i - 1)]]

\* duplicateSelected offsetting the copies to the right only.
duplicateSelectedSameY(ns, sel, firstId) ==
  LET selectedNodes == SelectSeq(ns, LAMBDA n : Includes(sel, n.id))
  IN [i \in 1..Len(selectedNodes) |->
        [selectedNodes[i] EXCEPT
           !.id = firstId + i - 1,
           !.x = @ + DuplicateOffset * Px,
           !.zIndex = Len(ns) + (i - 1)]]

\* duplicateSelected (canvasStore.ts:280-299)
duplicateSelectedResult(ns, sel, firstId) ==
  LET selectedNodes == SelectSeq(ns, LAMBDA n : Includes(sel, n.id))
  IN [i \in 1..Len(selectedNodes) |->
        [selectedNodes[i] EXCEPT
           !.id = firstId + i - 1,
           !.x = @ + DuplicateOffset * Px,
           !.y = @ + DuplicateOffset * Px,
           \* indexOf finds the first node equal by reference, which is this one
           !.zIndex = Len(ns) + (i - 1)]]

duplicateSelected ==
  LET newNodes == duplicateSelectedResult(nodes, selectedNodeIds, nextId)
  IN /\ Commit(nodes \o newNodes, [i \in 1..Len(newNodes) |-> newNodes[i].id])
     /\ nextId' = nextId + Len(newNodes)
     /\ Record("duplicateSelected")
     /\ Rerender(TRUE)
     /\ UNCHANGED <<uiVars, requests, nextRequest, genVars>>

\* ---------------------------------------------------------------- alignNodes
RECURSIVE SumOf(_, _)
SumOf(seq, key) ==
  IF seq = << >> THEN 0 ELSE Head(seq)[key] + SumOf(Tail(seq), key)

RECURSIVE MaxOf(_, _)
MaxOf(seq, key) ==
  IF Len(seq) = 1 THEN seq[1][key]
  ELSE LET m == MaxOf(Tail(seq), key)
       IN IF seq[1][key] > m THEN seq[1][key] ELSE m

\* Array.prototype.sort with the comparator (a, b) => a[key] - b[key]: a stable
\* ascending sort.
RECURSIVE SortBy(_, _)
SortBy(seq, key) ==
  IF Len(seq) <= 1 THEN seq
  ELSE LET front == SortBy(SubSeq(seq, 1, Len(seq) - 1), key)
           last == seq[Len(seq)]
           before == SelectSeq(front, LAMBDA n : n[key] <= last[key])
           after == SelectSeq(front, LAMBDA n : n[key] > last[key])
       IN before \o << last >> \o after

\* updatedNodes.findIndex(n => n.id === id), 1-based; 0 when there is none.
FindIndex(ns, id) ==
  IF \E i \in 1..Len(ns) : ns[i].id = id
  THEN CHOOSE i \in 1..Len(ns) :
         ns[i].id = id /\ \A j \in 1..(i - 1) : ns[j].id # id
  ELSE 0

\* Math.ceil(Math.sqrt(n))
CeilSqrt(n) == CHOOSE c \in 0..n : c * c >= n /\ \A d \in 0..(c - 1) : d * d < n

\* The forEach of the row branch (canvasStore.ts:318-326), from its i-th node on.
RECURSIVE RowWalk(_, _, _, _, _)
RowWalk(updated, sorted, i, currentX, avgY) ==
  IF i > Len(sorted) THEN updated
  ELSE LET nodeIndex == FindIndex(updated, sorted[i].id)
       IN RowWalk([updated EXCEPT ![nodeIndex] = [@ EXCEPT !.x = currentX, !.y = avgY]],
                  sorted, i + 1, currentX + sorted[i].width + GAP * Px, avgY)

\* The column walk that stacks the nodes edge to edge, without the gap.
RECURSIVE ColumnWalkNoGap(_, _, _, _, _)
ColumnWalkNoGap(updated, sorted, i, avgX, currentY) ==
  IF i > Len(sorted) THEN updated
  ELSE LET nodeIndex == FindIndex(updated, sorted[i].id)
       IN ColumnWalkNoGap([updated EXCEPT ![nodeIndex] = [@ EXCEPT !.x = avgX, !.y = currentY]],
                          sorted, i + 1, avgX, currentY + sorted[i].height)

\* The forEach of the column branch (canvasStore.ts:333-341).
RECURSIVE ColumnWalk(_, _, _, _, _)
ColumnWalk(updated, sorted, i, avgX, currentY) ==
  IF i > Len(sorted) THEN updated
  ELSE LET nodeIndex == FindIndex(updated, sorted[i].id)
       IN ColumnWalk([updated EXCEPT ![nodeIndex] = [@ EXCEPT !.x = avgX, !.y = currentY]],
                     sorted, i + 1, avgX, currentY + sorted[i].height + GAP * Px)

\* The grid walk that also stretches every node to the width of its cell.
RECURSIVE GridWalkResizing(_, _, _, _, _, _)
GridWalkResizing(updated, sel, i, numCols, maxWidth, maxHeight) ==
  IF i > Len(sel) THEN updated
  ELSE LET index == i - 1
           col == index % numCols
           row == index \div numCols
           nodeIndex == FindIndex(updated, sel[i].id)
           newX == sel[1].x + col * (maxWidth + GAP * Px)
           newY == sel[1].y + row * (maxHeight + GAP * Px) + (maxHeight - sel[i].height) \div 2
       IN GridWalkResizing([updated EXCEPT ![nodeIndex] =
                              [@ EXCEPT !.x = newX, !.y = newY, !.width = maxWidth]],
                           sel, i + 1, numCols, maxWidth, maxHeight)

\* The forEach of the grid branch (canvasStore.ts:354-364).
RECURSIVE GridWalk(_, _, _, _, _, _)
GridWalk(updated, sel, i, numCols, maxWidth, maxHeight) ==
  IF i > Len(sel) THEN updated
  ELSE LET index == i - 1
           col == index % numCols
           row == index \div numCols
           nodeIndex == FindIndex(updated, sel[i].id)
           newX == sel[1].x + col * (maxWidth + GAP * Px) + (maxWidth - sel[i].width) \div 2
           newY == sel[1].y + row * (maxHeight + GAP * Px) + (maxHeight - sel[i].height) \div 2
       IN GridWalk([updated EXCEPT ![nodeIndex] = [@ EXCEPT !.x = newX, !.y = newY]],
                   sel, i + 1, numCols, maxWidth, maxHeight)

\* alignNodes taking the selected nodes in the order of selectedNodeIds.
alignSelectedInSelectionOrder(ns, sel) ==
  LET existing == SelectSeq(sel, LAMBDA id : id \in Ids(ns))
  IN [k \in 1..Len(existing) |->
        ns[CHOOSE i \in 1..Len(ns) : ns[i].id = existing[k]]]

\* The nodes alignNodes selects (canvasStore.ts:303-305).
alignSelected(ns, sel) == SelectSeq(ns, LAMBDA n : Includes(sel, n.id))

\* alignNodes laying the row out in document order, without the sort by x.
alignNodesResultNoSort(ns, sel, alignment) ==
  LET selectedNodes == alignSelected(ns, sel)
      n == Len(selectedNodes)
  IN IF alignment = "row"
     THEN RowWalk(ns, selectedNodes, 1, selectedNodes[1].x, SumOf(selectedNodes, "y") \div n)
     ELSE IF alignment = "column"
     THEN LET sorted == SortBy(selectedNodes, "y")
          IN ColumnWalk(ns, sorted, 1, SumOf(sorted, "x") \div n, sorted[1].y)
     ELSE GridWalk(ns, selectedNodes, 1, CeilSqrt(n),
                   MaxOf(selectedNodes, "width"), MaxOf(selectedNodes, "height"))

\* updatedNodes of alignNodes (canvasStore.ts:310-365) for at least 2 selected nodes.
alignNodesResult(ns, sel, alignment) ==
  LET selectedNodes == alignSelected(ns, sel)
      n == Len(selectedNodes)
  IN IF alignment = "row"
     THEN LET sorted == SortBy(selectedNodes, "x")
          IN RowWalk(ns, sorted, 1, sorted[1].x, SumOf(sorted, "y") \div n)
     ELSE IF alignment = "column"
     THEN LET sorted == SortBy(selectedNodes, "y")
          IN ColumnWalk(ns, sorted, 1, SumOf(sorted, "x") \div n, sorted[1].y)
     ELSE GridWalk(ns, selectedNodes, 1, CeilSqrt(n),
                   MaxOf(selectedNodes, "width"), MaxOf(selectedNodes, "height"))

Alignments == {"row", "column", "grid"}

\* alignNodes returning early only when nothing is selected.
alignNodesFromOne(alignment) ==
  /\ IF Len(alignSelected(nodes, selectedNodeIds)) < 1
     THEN UNCHANGED storeVars
     ELSE Commit(alignNodesResult(nodes, selectedNodeIds, alignment), selectedNodeIds)
  /\ Record(IF Len(alignSelected(nodes, selectedNodeIds)) < 2
            THEN "alignNodes: fewer than 2" ELSE "alignNodes")
  /\ Rerender(Len(alignSelected(nodes, selectedNodeIds)) >= 1)
  /\ UNCHANGED <<uiVars, envVars>>

\* alignNodes (canvasStore.ts:301-369)
alignNodes(alignment) ==
  /\ IF Len(alignSelected(nodes, selectedNodeIds)) < 2
     THEN UNCHANGED storeVars
     ELSE Commit(alignNodesResult(nodes, selectedNodeIds, alignment), selectedNodeIds)
  /\ Record(IF Len(alignSelected(nodes, selectedNodeIds)) < 2
            THEN "alignNodes: fewer than 2" ELSE "alignNodes")
  /\ Rerender(Len(alignSelected(nodes, selectedNodeIds)) >= 2)
  /\ UNCHANGED <<uiVars, envVars>>

\* ------------------------------------------------------------- undo, redo
\* undo (canvasStore.ts:444-454)
undo ==
  /\ SetDoc(undoDoc(Doc))
  /\ Record("undo")
  /\ Rerender(historyIndex > 0)
  /\ UNCHANGED <<uiVars, envVars>>

\* redo (canvasStore.ts:456-466)
redo ==
  /\ SetDoc(redoDoc(Doc))
  /\ Record("redo")
  /\ Rerender(historyIndex < Len(history) - 1)
  /\ UNCHANGED <<uiVars, envVars>>

\* ------------------------------------------------------------- loadProject
\* loadProject up to its await (canvasStore.ts:116-119).
loadProjectStart(pid) ==
  /\ isLoading' = TRUE
  /\ error' = Null
  /\ requests' = requests \cup {[id |-> nextRequest, project |-> pid]}
  /\ nextRequest' = nextRequest + 1
  /\ Record("loadProjectStart")
  /\ Rerender(FALSE)
  /\ UNCHANGED <<storeVars, canvasMode, currentProject, viewportVars, nextId, genVars>>

\* The fields loadProject sets on a successful response (canvasStore.ts:122-132).
loadProjectDoc(d, pid) == [d EXCEPT !.nodes = ProjectNodes(pid)]

\* loadProject after a successful response (canvasStore.ts:120-132).
loadProjectSuccess(req) ==
  /\ req \in requests
  /\ requests' = requests \ {req}
  /\ SetDoc(loadProjectDoc(Doc, req.project))
  /\ currentProject' = req.project
  /\ zoom' = ProjectZoom(req.project)
  /\ pan' = ProjectPan(req.project)
  /\ isLoading' = FALSE
  /\ error' = Null
  /\ Record("loadProjectSuccess")
  /\ Rerender(TRUE)
  /\ UNCHANGED <<canvasMode, nextId, nextRequest, genVars>>

\* How getProject can fail (api.ts:57-80): a response without success, with or
\* without an error text, a thrown ApiError, or another thrown error.
LoadFailures ==
  { [kind |-> "response", error |-> "Project not found"],
    [kind |-> "response", error |-> Undefined],
    [kind |-> "ApiError", error |-> "HTTP 500"],
    [kind |-> "Error", error |-> "Failed to fetch"] }

\* The error message that forgets what the failure said.
loadErrorMessageGeneric(failure) == "Failed to load project"

\* The message loadProject stores for a failure (canvasStore.ts:134, 137).
loadErrorMessage(failure) ==
  IF failure.kind = "response"
  THEN IF failure.error \in {Undefined, ""} THEN "Failed to load project" ELSE failure.error
  ELSE IF failure.kind = "ApiError" THEN failure.error ELSE "Failed to load project"

\* loadProject after an error response or a thrown error (canvasStore.ts:133-139).
loadProjectFailure(req, failure) ==
  /\ req \in requests
  /\ requests' = requests \ {req}
  /\ error' = loadErrorMessage(failure)
  /\ isLoading' = FALSE
  /\ Record("loadProjectFailure")
  /\ Rerender(FALSE)
  /\ UNCHANGED <<storeVars, canvasMode, currentProject, viewportVars, nextId, nextRequest,
                 genVars>>

\* clearError (canvasStore.ts:469-471)
clearError ==
  /\ error' = Null
  /\ Record("clearError")
  /\ Rerender(FALSE)
  /\ UNCHANGED <<storeVars, canvasMode, currentProject, isLoading, viewportVars, envVars>>

\* ---------------------------------------------------------------- viewport
\* setZoom (canvasStore.ts:371)
setZoom(z) ==
  /\ zoom' = z
  /\ Record("setZoom")
  /\ Rerender(FALSE)
  /\ UNCHANGED <<storeVars, canvasMode, currentProject, isLoading, error, pan, envVars>>

\* setPan (canvasStore.ts:372)
setPan(p) ==
  /\ pan' = p
  /\ Record("setPan")
  /\ Rerender(FALSE)
  /\ UNCHANGED <<storeVars, canvasMode, currentProject, isLoading, error, zoom, envVars>>

\* ------------------------------------------------- the drawing surface
\* The pixel size of the image a url serves.
NaturalSize(url) ==
  IF url = "a" THEN [width |-> 100 * Px, height |-> 100 * Px]
  ELSE [width |-> 160 * Px, height |-> 120 * Px]

Put(f, k, v) == [x \in DOMAIN f \cup {k} |-> IF x = k THEN v ELSE f[x]]

Drop(f, ks) == [x \in DOMAIN f \ ks |-> f[x]]

Abs(a) == IF a < 0 THEN -a ELSE a

\* node.url as a condition (Canvas.tsx:641).
Truthy(url) == url \notin {Undefined, ""}

\* !node.url || node.url === 'undefined' || node.url === 'null' (Canvas.tsx:620, 644)
InvalidUrl(url) == ~Truthy(url) \/ url \in {"'undefined'", "'null'"}

\* A scale factor node.width / img.width, kept as the fraction it is.
Ratio(num, den) == [num |-> num, den |-> den]

\* (existingObj.width || 1) * (existingObj.scaleX || 1) (Canvas.tsx:586-587)
Scaled(size, scale) ==
  LET s == IF size = 0 THEN Px ELSE size
  IN IF scale.num = 0 THEN s ELSE (s * scale.num) \div scale.den

\* The drawable a finished load creates (Canvas.tsx:657-666): img.set(...) on
\* the fabric image of the loaded content, from the node the effect run that
\* started the load saw.
newDrawable(node, size, src) ==
  [id |-> node.id,
   left |-> node.x, top |-> node.y,
   width |-> size.width, height |-> size.height,
   scaleX |-> Ratio(node.width, size.width),
   scaleY |-> Ratio(node.height, size.height),
   angle |-> node.rotation, opacity |-> node.opacity,
   selectable |-> ~node.locked, src |-> src]

\* The change detection of the nodes-sync effect (Canvas.tsx:584-594).
positionChanged(obj, node) ==
  Abs(obj.left - node.x) * 10 > Px \/ Abs(obj.top - node.y) * 10 > Px

sizeChanged(obj, node) ==
  \/ Abs(Scaled(obj.width, obj.scaleX) - node.width) * 10 > Px
  \/ Abs(Scaled(obj.height, obj.scaleY) - node.height) * 10 > Px

rotationChanged(obj, node) == Abs(obj.angle - node.rotation) * 10 > 1

\* Math.abs((existingObj.opacity || 1) - node.opacity) > 0.01, in hundredths
opacityChanged(obj, node) ==
  Abs((IF obj.opacity = 0 THEN 100 ELSE obj.opacity) - node.opacity) > 1

urlChanged(obj, node) == obj.src # node.url

anyChanged(obj, node) ==
  \/ positionChanged(obj, node)
  \/ sizeChanged(obj, node)
  \/ rotationChanged(obj, node)
  \/ opacityChanged(obj, node)
  \/ urlChanged(obj, node)

\* existingObj.set(updates) (Canvas.tsx:599-614)
updatedDrawable(obj, node) ==
  [obj EXCEPT
     !.left = node.x, !.top = node.y,
     !.scaleX = Ratio(node.width, IF obj.width = 0 THEN Px ELSE obj.width),
     !.scaleY = Ratio(node.height, IF obj.height = 0 THEN Px ELSE obj.height),
     !.angle = node.rotation, !.opacity = node.opacity,
     !.selectable = ~node.locked,
     !.src = IF urlChanged(obj, node) /\ node.type = "image" THEN node.url ELSE @]

Load(id, kind, object, node) ==
  [id |-> id, kind |-> kind, object |-> object, node |-> node]

\* The surface as the nodes-sync effect reads and writes it.
Surface ==
  [objectMap |-> objectMap, canvasObjects |-> canvasObjects,
   loads |-> loads, nextLoad |-> nextLoad, log |-> NoSync]

\* The surface of a component that has just mounted: a new canvas, an empty map.
NewSurface ==
  [Surface EXCEPT !.objectMap = EmptyMap, !.canvasObjects = EmptyMap, !.loads = {}]

\* The first loop of the nodes-sync effect (Canvas.tsx:563-575): drawables whose
\* node is gone leave the canvas and the map.
syncRemove(sf, ns) ==
  LET gone == DOMAIN sf.objectMap \ Ids(ns)
  IN [sf EXCEPT
        !.canvasObjects = Drop(@, { sf.objectMap[k] : k \in gone }),
        !.objectMap = Drop(@, gone),
        !.log.removed = gone]

\* The body of the second loop for one node (Canvas.tsx:579-680).
syncNode(sf, node) ==
  IF node.id \in DOMAIN sf.objectMap
  THEN LET oid == sf.objectMap[node.id]
           obj == sf.canvasObjects[oid]
       IN IF ~anyChanged(obj, node) THEN sf
          ELSE LET written ==
                     [sf EXCEPT !.canvasObjects[oid] = updatedDrawable(obj, node),
                                !.log.written = @ \cup {node.id}]
               IN IF urlChanged(obj, node) /\ node.type = "image" /\ ~InvalidUrl(node.url)
                  THEN [written EXCEPT
                          !.loads = @ \cup {Load(sf.nextLoad, "setSrc", oid, node)},
                          !.nextLoad = @ + 1,
                          !.log.started = Append(@, node.id)]
                  ELSE written
  ELSE IF node.type = "image" /\ Truthy(node.url) /\ ~InvalidUrl(node.url)
       THEN [sf EXCEPT
               !.loads = @ \cup {Load(sf.nextLoad, "load", 0, node)},
               !.nextLoad = @ + 1,
               !.log.started = Append(@, node.id)]
       ELSE sf

RECURSIVE syncWalk(_, _, _)
syncWalk(sf, ns, i) ==
  IF i > Len(ns) THEN sf ELSE syncWalk(syncNode(sf, ns[i]), ns, i + 1)

\* A run of the effect that gives up at the first image with an invalid url.
syncResultAborting(sf, ns) ==
  LET bad == { i \in 1..Len(ns) : ns[i].type = "image" /\ InvalidUrl(ns[i].url) }
      first == CHOOSE i \in bad : \A j \in bad : i <= j
  IN IF bad = {} THEN syncWalk(syncRemove(sf, ns), ns, 1)
     ELSE syncWalk(syncRemove(sf, ns), SubSeq(ns, 1, first - 1), 1)

\* One run of the nodes-sync effect (Canvas.tsx:553-691).
syncResult(sf, ns) == syncWalk(syncRemove(sf, ns), ns, 1)

SetSurface(sf, ns, repeat) ==
  /\ objectMap' = sf.objectMap
  /\ canvasObjects' = sf.canvasObjects
  /\ loads' = sf.loads
  /\ nextLoad' = sf.nextLoad
  /\ syncLog' = [sf.log EXCEPT !.seen = ns, !.fresh = TRUE, !.repeat = repeat]

\* The nodes-sync effect runs again after nodes was set.
syncNodes ==
  /\ mounted /\ dirty
  /\ SetSurface(syncResult(Surface, nodes), nodes, syncLog.fresh /\ syncLog.seen = nodes)
  /\ dirty' = FALSE
  /\ lastOp' = "syncNodes"
  /\ UNCHANGED <<storeVars, uiVars, envVars, mounted, handlerMode, activeIds, lastEvent,
                 autoDue, pre>>

\* The component mounts: the mount effect creates the fabric canvas and its
\* handlers (Canvas.tsx:168-400), which close over the canvasMode of this
\* render, and the nodes-sync effect runs for the first time.
mount ==
  /\ ~mounted
  /\ mounted' = TRUE
  /\ handlerMode' = canvasMode
  /\ activeIds' = << >>
  /\ SetSurface(syncResult(NewSurface, nodes), nodes, FALSE)
  /\ dirty' = FALSE
  /\ autoDue' = TRUE
  /\ lastOp' = "mount"
  /\ UNCHANGED <<storeVars, uiVars, envVars, lastEvent, pre>>

\* The component unmounts (Canvas.tsx:395-399): the canvas is disposed and the
\* map cleared; loads still in flight end on the disposed canvas.
unmount ==
  /\ mounted
  /\ mounted' = FALSE
  /\ activeIds' = << >>
  /\ objectMap' = EmptyMap
  /\ canvasObjects' = EmptyMap
  /\ loads' = {}
  /\ syncLog' = NoSync
  /\ dirty' = FALSE
  /\ autoDue' = FALSE
  /\ lastEvent' = << >>
  /\ lastOp' = "unmount"
  /\ UNCHANGED <<storeVars, uiVars, envVars, handlerMode, nextLoad, pre>>

\* What loadImageWithCORS can come to (Canvas.tsx:73-101): the direct load, the
\* base64 fallback, or both failed.
LoadOutcomes == {"direct", "base64", "failed"}

\* What get('src') reads on a fresh fabric image: nothing, or the content
\* reference the image was created from.
InitialSrc(url, outcome) ==
  {"", IF outcome = "base64" THEN "data:" \o url ELSE url}

\* The then/catch of loadImageWithCORS (Canvas.tsx:649-678).
loadDone(l, outcome, src) ==
  /\ l \in loads /\ l.kind = "load"
  /\ loads' = loads \ {l}
  /\ IF outcome = "failed"
     THEN UNCHANGED <<objectMap, canvasObjects>>
     ELSE /\ canvasObjects' =
               Put(canvasObjects, l.id, newDrawable(l.node, NaturalSize(l.node.url), src))
          /\ objectMap' = Put(objectMap, l.node.id, l.id)
  /\ syncLog' = [syncLog EXCEPT !.fresh = FALSE]
  /\ lastOp' = "loadDone"
  /\ UNCHANGED <<storeVars, uiVars, envVars, mounted, handlerMode, activeIds,
                 nextLoad, lastEvent, dirty, autoDue, pre>>

\* setSrc comes back (Canvas.tsx:625-627): the object shows the new content, at
\* its natural size, or keeps the old one when the load failed.
setSrcDone(l, ok) ==
  /\ l \in loads /\ l.kind = "setSrc"
  /\ loads' = loads \ {l}
  /\ IF ok /\ l.object \in DOMAIN canvasObjects
     THEN canvasObjects' =
            [canvasObjects EXCEPT ![l.object] =
               [@ EXCEPT !.width = NaturalSize(l.node.url).width,
                         !.height = NaturalSize(l.node.url).height]]
     ELSE UNCHANGED canvasObjects
  /\ syncLog' = [syncLog EXCEPT !.fresh = FALSE]
  /\ lastOp' = "setSrcDone"
  /\ UNCHANGED <<storeVars, uiVars, envVars, mounted, handlerMode, activeIds,
                 objectMap, nextLoad, lastEvent, dirty, autoDue, pre>>

\* ---------------------------------------------------- selection handlers
SingleSelectModes == {"chat", "dragdrop"}

\* The selection:created handler of the mount effect (Canvas.tsx:268-357), as
\* the selection it leaves in the store. mode is the canvasMode it closed over.
createdSelection(mode, sel, ids) ==
  IF mode \in SingleSelectModes
  THEN IF Len(ids) = 1 THEN selectNodeResult(sel, ids[1], FALSE) ELSE << >>
  ELSE IF Len(ids) > 1 THEN ids ELSE selectNodeResult(sel, ids[1], FALSE)

\* The selection:updated handler of the mount effect (Canvas.tsx:359-387).
updatedSelection(mode, sel, ids) ==
  IF mode = "chat"
  THEN IF Len(ids) = 1 THEN selectNodeResult(sel, ids[1], FALSE) ELSE << >>
  ELSE IF Len(ids) > 1 THEN ids ELSE selectNodeResult(sel, ids[1], FALSE)

\* Whether the mount effect's handler called canvas.discardActiveObject().
discards(modes, mode, ids) == mode \in modes /\ Len(ids) > 1

\* handleSelection of the drag-and-drop effect (Canvas.tsx:447-458), registered
\* while canvasMode is 'dragdrop'; it runs after the mount effect's handler.
\* current is the store's selection when it runs, rendered the selectedNodeIds of
\* the render that registered it.
handleSelection(current, rendered, selected, deselected) ==
  IF Len(selected) > 0 THEN selected
  ELSE IF Len(deselected) > 0
       THEN SelectSeq(rendered, LAMBDA id : ~Includes(deselected, id))
       ELSE current

\* The ids of the drawables the user can pick on the canvas.
Pickable ==
  { canvasObjects[o].id : o \in {o \in DOMAIN canvasObjects : canvasObjects[o].selectable} }

\* fabric fires selection:created: nothing was active, the objects of ids are.
selectionCreated(ids) ==
  /\ mounted /\ activeIds = << >> /\ Len(ids) > 0
  /\ LET main == createdSelection(handlerMode, selectedNodeIds, ids)
     IN selectedNodeIds' =
          IF canvasMode = "dragdrop"
          THEN handleSelection(main, selectedNodeIds, ids, << >>)
          ELSE main
  /\ activeIds' = IF discards(SingleSelectModes, handlerMode, ids) THEN << >> ELSE ids
  /\ lastEvent' = ids
  /\ autoDue' = TRUE
  /\ lastOp' = "selection:created"
  /\ UNCHANGED <<nodes, history, historyIndex, uiVars, envVars, mounted, handlerMode,
                 surfaceVars, syncLog, dirty, pre>>

\* fabric fires selection:updated: selected joined the active objects,
\* deselected left them.
selectionUpdated(selected, deselected) ==
  /\ mounted /\ activeIds # << >>
  /\ Len(selected) + Len(deselected) > 0
  /\ LET main == IF Len(selected) > 0
                 THEN updatedSelection(handlerMode, selectedNodeIds, selected)
                 ELSE selectedNodeIds
     IN selectedNodeIds' =
          IF canvasMode = "dragdrop"
          THEN handleSelection(main, selectedNodeIds, selected, deselected)
          ELSE main
  /\ activeIds' =
       IF Len(selected) > 0 /\ discards({"chat"}, handlerMode, selected) THEN << >>
       ELSE SelectSeq(activeIds, LAMBDA id : ~Includes(deselected, id)) \o selected
  /\ lastEvent' = selected
  /\ autoDue' = (autoDue \/ Len(selected) > 0 \/ canvasMode = "dragdrop")
  /\ lastOp' = "selection:updated"
  /\ UNCHANGED <<nodes, history, historyIndex, uiVars, envVars, mounted, handlerMode,
                 surfaceVars, syncLog, dirty, pre>>

\* fabric fires selection:cleared (Canvas.tsx:389-393).
selectionCleared ==
  /\ mounted /\ activeIds # << >>
  /\ activeIds' = << >>
  /\ selectedNodeIds' = << >>
  /\ lastEvent' = << >>
  /\ autoDue' = TRUE
  /\ lastOp' = "selection:cleared"
  /\ UNCHANGED <<nodes, history, historyIndex, uiVars, envVars, mounted, handlerMode,
                 surfaceVars, syncLog, dirty, pre>>

CanvasModes == {"select", "chat", "dragdrop"}

\* setCanvasMode (canvasStore.ts:381) and, in the mounted component, the effect
\* on canvasMode (Canvas.tsx:403-422), which runs when the mode has changed.
setCanvasMode(mode) ==
  /\ canvasMode' = mode
  /\ IF mounted /\ mode # canvasMode /\ mode \in SingleSelectModes /\ Len(activeIds) > 1
     THEN activeIds' = << >> /\ selectedNodeIds' = << >>
     ELSE UNCHANGED <<activeIds, selectedNodeIds>>
  /\ autoDue' = (autoDue \/ (mounted /\ mode # canvasMode))
  /\ lastOp' = "setCanvasMode"
  /\ UNCHANGED <<nodes, history, historyIndex, currentProject, isLoading, error,
                 viewportVars, envVars, mounted, handlerMode, surfaceVars, syncLog, lastEvent, dirty, pre>>

\* ------------------------------------------------- generation workflows
Digit(n) == <<"1", "2", "3", "4", "5", "6", "7", "8", "9">>[n]

\* response.data of the call-th call of a workflow: the generated asset.
Asset(generation, call) ==
  [id |-> "asset-g" \o Digit(generation) \o Digit(call),
   url |-> "g" \o Digit(generation) \o Digit(call),
   width |-> 100 * Px, height |-> 100 * Px]

\* The selected image nodes that have an asset (part_004:31-32, Canvas.tsx:427-431).
selectedImageNodes(ns, sel) ==
  SelectSeq(ns, LAMBDA n : Includes(sel, n.id) /\ n.type = "image" /\ n.assetId # Undefined)

imageNodes(ns) == SelectSeq(ns, LAMBDA n : n.type = "image")

\* Where the prompt bar puts the image it generates (part_004:365-376, 442-449).
promptPosition(ns, sel) ==
  LET selected == selectedImageNodes(ns, sel)
      existing == imageNodes(ns)
  IN IF Len(selected) = 0
     THEN IF Len(existing) > 0
          THEN [x |-> existing[Len(existing)].x + existing[Len(existing)].width + 50 * Px,
                y |-> existing[Len(existing)].y]
          ELSE [x |-> 200 * Px, y |-> 200 * Px]
     ELSE [x |-> MaxOf([i \in 1..Len(selected) |->
                          [right |-> selected[i].x + selected[i].width]], "right") + 50 * Px,
           y |-> SumOf(selected, "y") \div Len(selected)]

\* Math.round of a length, in pixels.
roundPx(v) == (2 * v + Px) \div (2 * Px)

\* checkDimensionMismatch (part_004:44-67): several images are selected and
\* their widths or their heights are more than 10% apart.
checkDimensionMismatch(ns, sel) ==
  LET selected == selectedImageNodes(ns, sel)
      widths == { roundPx(selected[i].width) : i \in 1..Len(selected) }
      heights == { roundPx(selected[i].height) : i \in 1..Len(selected) }
      within(S) == \A lo \in S : \A hi \in S : lo > 0 /\ 10 * hi <= 11 * lo
  IN Len(selected) > 1 /\ ~(within(widths) /\ within(heights))

\* Where the mini chat puts it: near the picked image, at random (MiniChatWindow.tsx:98-99).
ChatPositions == { [x |-> 300 * Px, y |-> 250 * Px] }

\* The nodes a workflow passes to addNode once its last call has come back:
\* one for each asset returned (part_004:378-391, 451-464;
\* MiniChatWindow.tsx:94-107; Canvas.tsx:512-533).
generatedInputsOnFailure(g, returned) ==
  IF returned = << >>
  THEN << [type |-> "image", assetId |-> Undefined, url |-> Undefined,
           x |-> g.x, y |-> g.y, width |-> 100 * Px, height |-> 100 * Px,
           rotation |-> 0, opacity |-> 100, locked |-> FALSE] >>
  ELSE [i \in 1..Len(returned) |->
          [type |-> "image", assetId |-> returned[i].id, url |-> returned[i].url,
           x |-> g.x, y |-> g.y, width |-> returned[i].width, height |-> returned[i].height,
           rotation |-> 0, opacity |-> 100, locked |-> FALSE]]

generatedInputs(g, returned) ==
  [i \in 1..Len(returned) |->
     IF g.workflow = "dragdrop"
     THEN [type |-> "image", assetId |-> returned[i].id, url |-> returned[i].url,
           x |-> 100 * Px + (i - 1) * 120 * Px, y |-> 100 * Px,
           width |-> 100 * Px, height |-> 100 * Px,
           rotation |-> 0, opacity |-> 100, locked |-> FALSE]
     ELSE [type |-> "image", assetId |-> returned[i].id, url |-> returned[i].url,
           x |-> g.x, y |-> g.y, width |-> returned[i].width, height |-> returned[i].height,
           rotation |-> 0, opacity |-> 100, locked |-> FALSE]]

\* addNode called for each input in turn: each call appends and captures.
RECURSIVE addNodesDoc(_, _, _)
addNodesDoc(d, inputs, id) ==
  IF inputs = << >> THEN d
  ELSE LET ns == addNodeResult(d.nodes, Head(inputs), id)
           s == saveHistory(d.history, d.historyIndex, ns)
       IN addNodesDoc([d EXCEPT !.nodes = ns, !.history = s.history,
                                !.historyIndex = s.historyIndex],
                      Tail(inputs), id + 1)

\* A workflow starts: setGenerating(true, ...) and the first call goes out.
startGeneration(workflow, refs, position, total) ==
  /\ generations' = generations \cup
       { [id |-> nextGeneration, workflow |-> workflow, refs |-> refs,
          x |-> position.x, y |-> position.y,
          calls |-> 0, total |-> total, assets |-> << >>] }
  /\ nextGeneration' = nextGeneration + 1
  /\ isGenerating' = TRUE

\* PromptBar handleSubmit up to its generation call (part_004:313-360, 402-436);
\* the submit button is disabled while isGenerating (part_004:703). Images of
\* different dimensions are refused with an error and no call is made
\* (part_004:423-426, then the finally of 498-500).
promptSubmit ==
  /\ ~isGenerating
  /\ ~(canvasMode = "chat" /\ Len(selectedImageNodes(nodes, selectedNodeIds)) > 1)
  /\ IF checkDimensionMismatch(nodes, selectedNodeIds)
     THEN /\ error' = "Please select images with similar dimensions"
          /\ isGenerating' = FALSE
          /\ Record("promptSubmit: refused")
          /\ UNCHANGED <<generations, nextGeneration>>
     ELSE /\ startGeneration("prompt",
                             [i \in 1..Len(selectedImageNodes(nodes, selectedNodeIds)) |->
                                selectedImageNodes(nodes, selectedNodeIds)[i].id],
                             promptPosition(nodes, selectedNodeIds), 1)
          /\ Record("generate")
          /\ UNCHANGED error
  /\ UNCHANGED <<storeVars, canvasMode, currentProject, isLoading, viewportVars, nextId,
                 requests, nextRequest, viewVars, dirty, autoDue>>

\* MiniChatWindow handleSend up to its generation call (MiniChatWindow.tsx:63-90).
\* The window is opened by the chat branch of the selection handler on an image
\* with an asset (Canvas.tsx:277-316); it refuses to send while its own
\* generation is running.
chatSend(id, position) ==
  /\ mounted /\ handlerMode = "chat"
  /\ \E i \in 1..Len(nodes) :
       nodes[i].id = id /\ nodes[i].type = "image" /\ nodes[i].assetId # Undefined
  /\ ~\E g \in generations : g.workflow = "chat"
  /\ startGeneration("chat", << id >>, position, 1)
  /\ Record("generate")
  /\ UNCHANGED <<storeVars, uiVars, nextId, requests, nextRequest, viewVars, dirty, autoDue>>

\* The auto-generation effect runs (Canvas.tsx:425-439): with exactly 2 selected
\* ids, both of images with an asset, in dragdrop mode, it calls
\* handleDragDropGeneration (Canvas.tsx:474-501), which starts its first call.
autoGenerate ==
  /\ mounted /\ autoDue
  /\ autoDue' = FALSE
  /\ LET pair == selectedImageNodes(nodes, selectedNodeIds)
     IN IF canvasMode = "dragdrop" /\ Len(selectedNodeIds) = 2 /\ Len(pair) = 2
        THEN /\ startGeneration("dragdrop", << pair[1].id, pair[2].id >>,
                                [x |-> 100 * Px, y |-> 100 * Px], Variations)
             /\ Record("generate")
        ELSE /\ UNCHANGED genVars
             /\ Record("autoGenerate: nothing to do")
  /\ UNCHANGED <<storeVars, uiVars, nextId, requests, nextRequest, viewVars, dirty>>

\* A generation call comes back, with an asset (ok) or with a failure or no
\* asset. The last call of a workflow ends it: the assets returned become nodes
\* (part_004:366-399, 435-472; MiniChatWindow.tsx:92-115; Canvas.tsx:503-540),
\* or the failure is reported (part_004:490-497 sets the store's error).
generationResponse(g, ok) ==
  LET returned == IF ok THEN Append(g.assets, Asset(g.id, g.calls + 1)) ELSE g.assets
      final == g.calls + 1 = g.total
      inputs == IF final THEN generatedInputs(g, returned) ELSE << >>
  IN /\ g \in generations
     /\ generations' =
          IF final THEN generations \ {g}
          ELSE (generations \ {g}) \cup {[g EXCEPT !.calls = @ + 1, !.assets = returned]}
     /\ isGenerating' = ~final
     /\ SetDoc(addNodesDoc(Doc, inputs, nextId))
     /\ nextId' = nextId + Len(inputs)
     /\ error' = IF final /\ returned = << >> /\ g.workflow = "prompt"
                 THEN "Generation failed" ELSE error
     /\ Record(IF ok THEN "generation: asset returned" ELSE "generation: call failed")
     /\ Rerender(inputs # << >>)
     /\ UNCHANGED <<canvasMode, currentProject, isLoading, viewportVars, requests,
                    nextRequest, nextGeneration>>

\* ---------------------------------------------------------- specifications
\* An id that is in no document: never generated, or of a node long deleted.
AbsentId == 0

TargetIds == Ids(nodes) \cup {AbsentId}

\* The sequences without repetition over a set of ids.
Orderings(S) ==
  { q \in UNION { [1..k -> S] : k \in 0..Cardinality(S) } :
      \A i, j \in DOMAIN q : i # j => q[i] # q[j] }

\* The bounded specifications write no history position beyond MaxDepth.
CanCapture == historyIndex + 1 < MaxDepth

CanCreate(k) == nextId + k - 1 <= MaxIds

\* The editing operations of the store.
EditNext ==
  \/ \E inp \in NodeInputs : CanCapture /\ CanCreate(1) /\ addNode(inp)
  \/ \E id \in TargetIds, u \in UpdateInputs : CanCapture /\ updateNode(id, u)
  \/ \E id \in TargetIds : CanCapture /\ deleteNode(id)
  \/ CanCapture /\ deleteSelectedNodes
  \/ \E id \in Ids(nodes), multi \in BOOLEAN : selectNode(id, multi)
  \/ \E ids \in Orderings(Ids(nodes)) : selectNodes(ids)
  \/ clearSelection
  \/ CanCapture /\ CanCreate(Len(alignSelected(nodes, selectedNodeIds))) /\ duplicateSelected
  \/ \E a \in Alignments : CanCapture /\ alignNodes(a)
  \/ undo
  \/ redo

SpecEdit == Init /\ [][EditNext]_vars

\* Laying out: images are added, picked in any order, aligned and duplicated,
\* and the layout is undone.
LayoutNext ==
  \/ \E inp \in NodeInputs : CanCapture /\ CanCreate(1) /\ addNode(inp)
  \/ \E ids \in Orderings(Ids(nodes)) : selectNodes(ids)
  \/ CanCapture /\ CanCreate(Len(alignSelected(nodes, selectedNodeIds))) /\ duplicateSelected
  \/ \E a \in Alignments : CanCapture /\ alignNodes(a)
  \/ undo

SpecLayout == Init /\ [][LayoutNext]_vars

\* Operations that find nothing to act on: updates and deletions by an id that
\* may be no node's, undo and redo at either end of the history.
TargetNext ==
  \/ \E inp \in NodeInputs : CanCapture /\ CanCreate(1) /\ addNode(inp)
  \/ \E id \in TargetIds, u \in UpdateInputs : CanCapture /\ updateNode(id, u)
  \/ \E id \in TargetIds : CanCapture /\ deleteNode(id)
  \/ \E id \in Ids(nodes), multi \in BOOLEAN : selectNode(id, multi)
  \/ undo
  \/ redo

SpecTarget == Init /\ [][TargetNext]_vars

\* A long editing session on one node: it is added, then dragged one pixel to
\* the right at a time (back to the left edge of a strip NudgeSpan wide), with
\* undo and redo in between, for as long as the user likes. The history fills
\* up to HistoryLimit and evicts.
Nudge(n) == [x |-> (n.x + Px) % (NudgeSpan * Px), y |-> n.y]

\* The nodes the user made, as opposed to the generated ones.
UserIds == Ids(nodes) \cap 1..MaxIds

\* How the generation API behaves during one workflow, as the set of calls
\* that fail: it is up, it is down, or it drops the second call.
FailurePatterns == { {}, 1..Variations, {2} }

failedCalls(g) ==
  { c \in 1..g.calls : ~\E i \in 1..Len(g.assets) : g.assets[i] = Asset(g.id, c) }

Answers(g, ok) ==
  \E P \in FailurePatterns :
    P \cap 1..(g.calls + 1) = failedCalls(g) \cup (IF ok THEN {} ELSE {g.calls + 1})

\* Generating: on the mounted canvas images are added and picked, the mode is
\* switched, an image is dragged, the prompt bar and the mini chat are used,
\* pairs picked in dragdrop mode are combined, and the generation API answers
\* each call with an asset or a failure.
CanGenerate == nextGeneration <= MaxWorkflows

GenerateNext ==
  \/ nodes = << >> /\ ~mounted /\ mount
  \/ \E inp \in NodeInputs : CanCapture /\ CanCreate(1) /\ addNode(inp)
  \/ \E ids \in Orderings(UserIds) : selectNodes(ids)
  \/ \E mode \in CanvasModes : setCanvasMode(mode)
  \/ \E i \in 1..Len(nodes) :
       nodes[i].id \in UserIds /\ CanCapture /\ updateNode(nodes[i].id, Nudge(nodes[i]))
  \/ CanGenerate /\ promptSubmit
  \/ \E id \in Ids(nodes), position \in ChatPositions : CanGenerate /\ chatSend(id, position)
  \/ CanGenerate /\ autoGenerate
  \/ \E g \in generations, ok \in BOOLEAN : Answers(g, ok) /\ generationResponse(g, ok)

SpecGenerate == Init /\ [][GenerateNext]_vars

\* Combining pairs: in dragdrop mode images are added, picked and dragged while
\* the auto-generation effect runs after every render that changed what it
\* watches, and the API answers.
AutoNext ==
  \/ nodes = << >> /\ ~mounted /\ mount
  \/ canvasMode # "dragdrop" /\ setCanvasMode("dragdrop")
  \/ \E inp \in NodeInputs : CanCapture /\ CanCreate(1) /\ addNode(inp)
  \/ \E ids \in Orderings(UserIds) : selectNodes(ids)
  \/ \E i \in 1..Len(nodes) :
       nodes[i].id \in UserIds /\ CanCapture /\ updateNode(nodes[i].id, Nudge(nodes[i]))
  \/ nextGeneration <= MaxGenerations /\ autoGenerate
  \/ \E g \in generations, ok \in BOOLEAN : Answers(g, ok) /\ generationResponse(g, ok)

SpecAuto == Init /\ [][AutoNext]_vars

HistoryNext ==
  \/ nodes = << >> /\ addNode(NodeInput("image", "a", 0, 0, 50, 50))
  \/ \E i \in 1..Len(nodes) : updateNode(nodes[i].id, Nudge(nodes[i]))
  \/ undo
  \/ redo

SpecHistory == Init /\ [][HistoryNext]_vars

CanLoad(sf) == sf.nextLoad - 1 <= MaxLoads

SeqToSet(q) == { q[i] : i \in 1..Len(q) }

\* Picking on the canvas: the component mounts and unmounts in whichever mode
\* the store is in, images are added and drawn, the user picks drawables, changes the pick
\* and switches the mode.
SelectNext ==
  \/ CanLoad(syncResult(NewSurface, nodes)) /\ mount
  \/ unmount
  \/ \E mode \in CanvasModes : setCanvasMode(mode)
  \/ \E inp \in NodeInputs : CanCapture /\ CanCreate(1) /\ addNode(inp)
  \/ CanLoad(syncResult(Surface, nodes)) /\ syncNodes
  \/ \E l \in loads : loadDone(l, "direct", l.node.url)
  \/ \E ids \in Orderings(Pickable) : selectionCreated(ids)
  \/ \E selected \in Orderings(Pickable \ SeqToSet(activeIds)),
        deselected \in Orderings(SeqToSet(activeIds)) :
       selectionUpdated(selected, deselected)
  \/ selectionCleared

SpecSelect == Init /\ [][SelectNext]_vars

\* Keeping the surface in step: the component mounts and unmounts, images are
\* added, deleted, faded out or locked in the inspector, given another url, or
\* written without a change;
\* loads come back in any order and with any outcome.
InspectorInputs == { [opacity |-> 0], [locked |-> TRUE] }

\* updateNode takes any fields of a node, its url among them.
UrlInputs == { [url |-> "b"] }

SyncNext ==
  \/ CanLoad(syncResult(NewSurface, nodes)) /\ mount
  \/ unmount
  \/ \E inp \in NodeInputs : CanCapture /\ CanCreate(1) /\ addNode(inp)
  \/ \E id \in TargetIds, u \in InspectorInputs \cup UrlInputs :
       CanCapture /\ updateNode(id, u)
  \/ \E id \in Ids(nodes) : CanCapture /\ deleteNode(id)
  \/ CanLoad(syncResult(Surface, nodes)) /\ syncNodes
  \/ \E l \in loads, outcome \in LoadOutcomes :
       \E src \in InitialSrc(l.node.url, outcome) : loadDone(l, outcome, src)
  \/ \E l \in loads, ok \in BOOLEAN : setSrcDone(l, ok)

SpecSync == Init /\ [][SyncNext]_vars

\* Images that cannot be shown: next to good images, nodes are added whose url
\* is the text 'undefined', an image is given an empty url, images are locked,
\* and loads fail or succeed.
FailureInputs ==
  { NodeInput("image", "a", 0, 0, 50, 50),
    NodeInput("image", "'undefined'", 10, 10, 50, 50) }

BrokenUrlInputs == { [url |-> ""] }

FailureNext ==
  \/ CanLoad(syncResult(NewSurface, nodes)) /\ mount
  \/ \E inp \in FailureInputs : CanCapture /\ CanCreate(1) /\ addNode(inp)
  \/ \E id \in Ids(nodes), u \in BrokenUrlInputs \cup {[locked |-> TRUE]} :
       CanCapture /\ updateNode(id, u)
  \/ CanLoad(syncResult(Surface, nodes)) /\ syncNodes
  \/ \E l \in loads, outcome \in LoadOutcomes :
       \E src \in InitialSrc(l.node.url, outcome) : loadDone(l, outcome, src)

SpecFailure == Init /\ [][FailureNext]_vars

\* Looking around: the document is edited, undone and redone while nodes are
\* picked, the view is zoomed and panned and the mode is switched.
ZoomInputs == {100, 120}

PanInputs == { [x |-> 0, y |-> 0], [x |-> 30 * Px, y |-> -10 * Px] }

ViewNext ==
  \/ \E inp \in {NodeInput("image", "a", 0, 0, 50, 50)} : CanCapture /\ CanCreate(1) /\ addNode(inp)
  \/ \E id \in Ids(nodes), multi \in BOOLEAN : selectNode(id, multi)
  \/ \E ids \in Orderings(Ids(nodes)) : selectNodes(ids)
  \/ clearSelection
  \/ \E z \in ZoomInputs : setZoom(z)
  \/ \E p \in PanInputs : setPan(p)
  \/ \E mode \in CanvasModes : setCanvasMode(mode)
  \/ CanCapture /\ deleteSelectedNodes
  \/ undo
  \/ redo

SpecView == Init /\ [][ViewNext]_vars

\* Opening projects that may fail to load: a document is made and picked from,
\* projects are opened, each request is answered with the project or with a
\* failure, and the error is dismissed.
LoadNext ==
  \/ \E inp \in NodeInputs : CanCapture /\ CanCreate(1) /\ addNode(inp)
  \/ \E id \in Ids(nodes) : selectNode(id, FALSE)
  \/ \E pid \in ProjectIds : nextRequest <= MaxRequests /\ loadProjectStart(pid)
  \/ \E req \in requests : loadProjectSuccess(req)
  \/ \E req \in requests, failure \in LoadFailures : loadProjectFailure(req, failure)
  \/ clearError

SpecLoad == Init /\ [][LoadNext]_vars

\* Calls that find nothing to act on: an image is added, picked and dropped
\* from the pick, and the store is asked to update or delete a node by an id,
\* also one that no node has, and to delete or duplicate the selection, also
\* when it is empty, with undo and redo in between.
IdleNext ==
  \/ \E inp \in {NodeInput("image", "a", 0, 0, 50, 50)} :
       CanCapture /\ CanCreate(1) /\ addNode(inp)
  \/ \E id \in TargetIds, u \in UpdateInputs : CanCapture /\ updateNode(id, u)
  \/ \E id \in TargetIds : CanCapture /\ deleteNode(id)
  \/ CanCapture /\ deleteSelectedNodes
  \/ \E id \in Ids(nodes) : selectNode(id, FALSE)
  \/ clearSelection
  \/ CanCapture /\ CanCreate(Len(alignSelected(nodes, selectedNodeIds))) /\ duplicateSelected
  \/ undo
  \/ redo

SpecIdle == Init /\ [][IdleNext]_vars

\* Drawing until nothing is left to do: the component mounts once, images are
\* added and deleted, and every load comes back with its image. React runs a
\* scheduled effect and the browser answers every load, so neither waits for ever.
SettleNext ==
  \/ CanLoad(syncResult(NewSurface, nodes)) /\ mount
  \/ \E inp \in NodeInputs : CanCapture /\ CanCreate(1) /\ addNode(inp)
  \/ \E id \in Ids(nodes) : CanCapture /\ deleteNode(id)
  \/ CanLoad(syncResult(Surface, nodes)) /\ syncNodes
  \/ \E l \in loads : loadDone(l, "direct", l.node.url)

SpecSettle ==
  /\ Init /\ [][SettleNext]_vars
  /\ WF_vars(CanLoad(syncResult(Surface, nodes)) /\ syncNodes)
  /\ WF_vars(\E l \in loads : loadDone(l, "direct", l.node.url))

\* Opening projects through the persistence API while the document is edited.
Next ==
  \/ \E inp \in NodeInputs : CanCapture /\ CanCreate(1) /\ addNode(inp)
  \/ \E id \in TargetIds : CanCapture /\ deleteNode(id)
  \/ \E id \in Ids(nodes), multi \in BOOLEAN : selectNode(id, multi)
  \/ undo
  \/ redo
  \/ \E pid \in ProjectIds : nextRequest <= MaxRequests /\ loadProjectStart(pid)
  \/ \E req \in requests : loadProjectSuccess(req)
  \/ \E req \in requests, failure \in LoadFailures : loadProjectFailure(req, failure)

Spec == Init /\ [][Next]_vars

\* ------------------------------------------------------------------ claims
\* The operations that capture history.
Capturing ==
  {"addNode", "updateNode", "deleteNode", "deleteSelectedNodes",
   "duplicateSelected", "alignNodes"}

\* C1: after any sequence of the editing operations, with selectNode and
\* selectNodes called on ids that exist, every selected id is the id of a node
\* in the document.
C1_SelectionValid ==
  \A i \in 1..Len(selectedNodeIds) : selectedNodeIds[i] \in Ids(nodes)

\* A node was deleted and a selection is left.
C1_Witness ==
  /\ lastOp = "deleteNode"
  /\ Len(nodes) < nextId - 1
  /\ selectedNodeIds # << >>

\* C2: the history is empty with historyIndex = -1, or historyIndex is the
\* index of one of its entries; and redo changes nothing unless
\* historyIndex < history.length - 1.
C2_HistoryIndexInRange ==
  /\ \/ history = << >> /\ historyIndex = -1
     \/ 0 <= historyIndex /\ historyIndex < Len(history)
  /\ historyIndex >= Len(history) - 1 => redoDoc(Doc) = Doc

\* redo was called at the tail of a full history.
C2_Witness ==
  /\ lastOp = "redo"
  /\ Len(history) = HistoryLimit
  /\ historyIndex = HistoryLimit - 1
  /\ pre.historyIndex = historyIndex

\* C3: the history never holds more than 50 entries; a capturing operation
\* leaves historyIndex at the last entry, and on overflow it evicts exactly the
\* oldest entry.
C3_HistoryBounded ==
  /\ [](/\ Len(history) <= HistoryLimit
        /\ lastOp \in Capturing =>
             /\ historyIndex = Len(history) - 1
             /\ Len(history) = Min(pre.historyIndex + 2, HistoryLimit))
  /\ [][lastOp' \in Capturing /\ historyIndex + 2 > HistoryLimit =>
          \A i \in 1..(HistoryLimit - 1) : history'[i] = history[i + 1]]_vars

\* A capture on a full history whose index was at the tail.
C3_Witness ==
  /\ lastOp = "updateNode"
  /\ pre.length = HistoryLimit
  /\ pre.historyIndex = HistoryLimit - 1
  /\ Len(history) = HistoryLimit

\* C4: directly after a capturing operation, undo followed by redo leaves
\* nodes as the operation left them.
C4_UndoRedoRoundTrip ==
  lastOp \in Capturing => redoDoc(undoDoc(Doc)).nodes = nodes

\* A capture that evicted, after which undo does change nodes.
C4_Witness ==
  /\ lastOp \in Capturing
  /\ pre.length = HistoryLimit
  /\ pre.historyIndex = HistoryLimit - 1
  /\ undoDoc(Doc).nodes # nodes

\* C5: a capturing operation performed after undo drops every entry after
\* historyIndex and appends the new snapshot; afterwards historyIndex is the
\* last index and redo does nothing.
C5_LinearLog ==
  [][lastOp' \in Capturing /\ historyIndex < Len(history) - 1 =>
       /\ history' = Append(SubSeq(history, 1, historyIndex + 1), [nodes |-> nodes'])
       /\ historyIndex' = Len(history') - 1
       /\ redoDoc(Doc)' = Doc']_vars

\* A capture made two or more undos behind the tail.
C5_Witness ==
  /\ lastOp = "updateNode"
  /\ pre.historyIndex + 2 < pre.length
  /\ Len(history) = pre.historyIndex + 2

\* C6: no two nodes of the document have the same id.
C6_UniqueIds ==
  \A i, j \in 1..Len(nodes) : i # j => nodes[i].id # nodes[j].id

\* A duplicate stands next to its original.
C6_Witness ==
  /\ lastOp = "duplicateSelected"
  /\ Len(nodes) >= 2
  /\ Len(selectedNodeIds) >= 1

\* C8: a successful loadProject leaves the history empty and historyIndex at
\* -1, so that undo cannot bring back the nodes of the document open before.
C8_LoadClearsHistory ==
  lastOp = "loadProjectSuccess" =>
    /\ history = << >>
    /\ historyIndex = -1
    /\ undoDoc(Doc).nodes = nodes

\* C9: a successful loadProject leaves the selection empty.
C9_LoadClearsSelection ==
  lastOp = "loadProjectSuccess" => selectedNodeIds = << >>

\* C7: in chat mode and in drag-and-drop mode, a selection event of the drawing
\* surface that carries more than one drawable leaves the store's selection
\* empty, whichever mode the component was mounted in.
C7_MultiPickClearsSelection ==
  ( /\ lastOp \in {"selection:created", "selection:updated"}
    /\ canvasMode \in SingleSelectModes
    /\ Len(lastEvent) > 1 )
  => selectedNodeIds = << >>

\* C10: a run of the nodes-sync effect that follows another one on the same
\* node collection, with nothing done to the surface in between, removes no
\* drawable, writes none and starts no load.
C10_SecondPassIdle ==
  (lastOp = "syncNodes" /\ syncLog.repeat)
  => (syncLog.removed = {} /\ syncLog.written = {} /\ syncLog.started = << >>)

\* A load is stale when the node it was started for is gone or has another url.
StaleLoad(l) ==
  ~\E i \in 1..Len(nodes) : nodes[i].id = l.node.id /\ nodes[i].url = l.node.url

\* C11: when an image load that the nodes-sync effect started comes back after
\* its node was deleted or given another url, it adds no drawable to the canvas
\* and no entry to the drawable map.
C11_StaleLoadIgnored ==
  [][ \A l \in loads :
        ( /\ lastOp' = "loadDone"
          /\ loads' = loads \ {l}
          /\ l.kind = "load"
          /\ StaleLoad(l) )
        => (canvasObjects' = canvasObjects /\ objectMap' = objectMap) ]_vars

\* C12: the canvas never holds two drawables of one node id, and every
\* drawable on it is the one the drawable map holds for its id.
C12_OneDrawablePerNode ==
  \A o \in DOMAIN canvasObjects :
    /\ canvasObjects[o].id \in DOMAIN objectMap
    /\ objectMap[canvasObjects[o].id] = o

\* The positions in nodes of the selected nodes.
SelectedAt == { i \in 1..Len(nodes) : Includes(selectedNodeIds, nodes[i].id) }

RECURSIVE SumOver(_, _)
SumOver(S, key) ==
  IF S = {} THEN 0
  ELSE LET i == CHOOSE j \in S : TRUE IN nodes[i][key] + SumOver(S \ {i}, key)

\* The selected nodes that come before the one at i when they are sorted
\* ascending by x, ties in document order.
LeftOf(i) ==
  { j \in SelectedAt :
      nodes[j].x < nodes[i].x \/ (nodes[j].x = nodes[i].x /\ j < i) }

\* C14: alignNodes('row') with at least 2 selected nodes puts the selected
\* nodes, taken ascending by x with ties in document order, side by side from
\* the x of the first, each 20 after the right edge of the one before it, and
\* gives each of them the mean of their y values.
C14_RowLayout ==
  [][ (alignNodes("row") /\ Cardinality(SelectedAt) >= 2)
      => /\ Len(nodes') = Len(nodes)
         /\ \A i \in SelectedAt :
              /\ nodes'[i].id = nodes[i].id
              /\ nodes'[i].x =
                   (IF LeftOf(i) = {} THEN nodes[i].x
                    ELSE LET first == CHOOSE j \in SelectedAt : LeftOf(j) = {}
                         IN nodes[first].x + SumOver(LeftOf(i), "width")
                            + Cardinality(LeftOf(i)) * 20 * Px)
              /\ nodes'[i].y * Cardinality(SelectedAt) = SumOver(SelectedAt, "y") ]_vars

\* A(0,0,50x50) and B(200,100,80x80) aligned in a row: both at y = 50, B at x = 70.
C14_Witness ==
  /\ lastOp = "alignNodes" /\ Len(nodes) = 2
  /\ nodes[1].x = 0 /\ nodes[1].y = 50 * Px /\ nodes[1].width = 50 * Px
  /\ nodes[2].x = 70 * Px /\ nodes[2].y = 50 * Px

\* The position in nodes of the node with this id.
NodeAt(id) == CHOOSE i \in 1..Len(nodes) : nodes[i].id = id

MaxOver(S, key) == CHOOSE m \in { nodes[i][key] : i \in S } :
                     \A i \in S : nodes[i][key] <= m

RECURSIVE DocumentOrder(_)
DocumentOrder(S) ==
  IF S = {} THEN << >>
  ELSE LET m == CHOOSE j \in S : \A q \in S : j <= q
       IN << m >> \o DocumentOrder(S \ {m})

C17_AlignFewerThanTwo ==
  [][ \A a \in Alignments :
        (alignNodes(a) /\ Cardinality(SelectedAt) < 2)
        => /\ nodes' = nodes
           /\ selectedNodeIds' = selectedNodeIds
           /\ history' = history
           /\ historyIndex' = historyIndex ]_vars

\* alignNodes was called with one node selected.
C17_Witness ==
  /\ lastOp = "alignNodes: fewer than 2"
  /\ Len(selectedNodeIds) = 1 /\ selectedNodeIds[1] \in Ids(nodes)

\* C18: updateNode and deleteNode called with an id that no node has leave the
\* nodes and the selection exactly as they were.
C18_AbsentIdIgnored ==
  [][ \A id \in TargetIds \ Ids(nodes) :
        ((\E u \in UpdateInputs : updateNode(id, u)) \/ deleteNode(id))
        => (nodes' = nodes /\ selectedNodeIds' = selectedNodeIds) ]_vars

\* deleteNode was called with an id of no node while a node was selected: the
\* entry it captured equals the one before it, and the selection is still there.
C18_Witness ==
  /\ lastOp = "deleteNode"
  /\ nodes # << >> /\ selectedNodeIds # << >>
  /\ historyIndex >= 1 /\ historyIndex = Len(history) - 1
  /\ history[historyIndex + 1].nodes = history[historyIndex].nodes
  /\ history[historyIndex + 1].nodes = nodes

\* C19: undo when historyIndex <= 0, the empty history included, and redo when
\* historyIndex = history.length - 1 change neither nodes nor selectedNodeIds
\* nor history nor historyIndex.
C19_ExhaustedHistoryIgnored ==
  [][ ( \/ undo /\ historyIndex <= 0
        \/ redo /\ historyIndex = Len(history) - 1 )
      => /\ nodes' = nodes
         /\ selectedNodeIds' = selectedNodeIds
         /\ history' = history
         /\ historyIndex' = historyIndex ]_vars

\* undo was called at the first entry with a node selected, which an undo that
\* acts would have deselected.
C19_Witness ==
  /\ lastOp = "undo" /\ historyIndex = 0
  /\ selectedNodeIds # << >> /\ nodes # << >>

\* C13: in dragdrop mode, while an automatic generation for a pair of picked
\* images is in flight, no second one is started for the same pair: at no time
\* are two automatic generations for one pair in flight together.
C13_OneGenerationPerPair ==
  \A g \in generations : \A h \in generations :
    (g.workflow = "dragdrop" /\ h.workflow = "dragdrop" /\ g.refs = h.refs) => g = h

\* C20: starting a generation workflow (prompt bar, mini chat, dragdrop
\* variations) changes neither the nodes nor the history; an answer that does
\* not end the workflow, or ends it with no asset returned, changes neither;
\* an answer that ends it with k assets returned appends k image nodes with
\* fresh ids after the existing ones, the j-th referencing the j-th asset
\* returned, each appended through its own capture of the history; the
\* selection stays as it was.
C20_NodesOnlyFromReturnedAssets ==
  [][ /\ (promptSubmit \/ autoGenerate
          \/ \E id \in Ids(nodes), position \in ChatPositions : chatSend(id, position))
          => UNCHANGED <<nodes, history, historyIndex>>
      /\ \A g \in generations, ok \in BOOLEAN :
           generationResponse(g, ok)
           => LET ended == ~\E h \in generations' : h.id = g.id
                  returned == IF ok THEN Append(g.assets, Asset(g.id, g.calls + 1))
                                    ELSE g.assets
                  k == IF ended THEN Len(returned) ELSE 0
                  old == Len(nodes)
              IN /\ Len(nodes') = old + k
                 /\ \A i \in 1..old : nodes'[i] = nodes[i]
                 /\ \A j \in 1..k :
                      /\ nodes'[old + j].type = "image"
                      /\ nodes'[old + j].assetId = returned[j].id
                      /\ nodes'[old + j].url = returned[j].url
                      /\ nodes'[old + j].id \notin Ids(nodes)
                      /\ \A q \in 1..k : q # j => nodes'[old + q].id # nodes'[old + j].id
                 /\ selectedNodeIds' = selectedNodeIds
                 /\ (k = 0 => history' = history /\ historyIndex' = historyIndex)
                 /\ (k > 0 /\ historyIndex + 1 + k <= HistoryLimit
                      => /\ Len(history') = historyIndex + 1 + k
                         /\ historyIndex' = historyIndex + k
                         /\ SubSeq(history', 1, historyIndex + 1)
                              = SubSeq(history, 1, historyIndex + 1)
                         /\ \A j \in 1..k :
                              history'[historyIndex + 1 + j].nodes
                                = SubSeq(nodes', 1, old + j)) ]_vars

\* A dragdrop workflow whose second call failed has ended: the four assets its
\* other calls returned are on the board after the picked pair, in call order.
C20_Witness ==
  /\ lastOp = "generation: asset returned" /\ generations = {}
  /\ Len(nodes) = 6
  /\ nodes[3].assetId = "asset-g11" /\ nodes[4].assetId = "asset-g13"
  /\ nodes[5].assetId = "asset-g14" /\ nodes[6].assetId = "asset-g15"
  /\ historyIndex = 5

\* An image node whose content reference cannot be loaded from.
BrokenUrl(n) ==
  n.type = "image" /\ n.url \in {Undefined, "", "'undefined'", "'null'"}

\* The nodes but the one at position i.
Without(ns, i) == SubSeq(ns, 1, i - 1) \o SubSeq(ns, i + 1, Len(ns))

\* What a surface holds for node id: its drawable, if any, and the loads in
\* flight for it.
HeldFor(map, objects, inflight, id) ==
  [drawable |-> IF id \in DOMAIN map THEN << objects[map[id]] >> ELSE << >>,
   loads |-> { [kind |-> l.kind, node |-> l.node, object |-> l.object] :
               l \in { q \in inflight : q.node.id = id } }]

\* C21: in a run of the nodes-sync effect, the first one of a mounting
\* component included, an image node with an invalid url
\* gets no drawable and no load, and every other node ends the run with the
\* drawable and the loads it would have had if the invalid node had not been
\* in the collection; a load that fails adds no drawable and leaves the
\* drawables, the map and the other loads as they are.
C21_FailureIsLocal ==
  [][ /\ (syncNodes \/ mount)
         => \A i \in 1..Len(nodes) :
              BrokenUrl(nodes[i])
              => LET before == IF mounted THEN Surface ELSE NewSurface
                     alone == syncResult(before, Without(nodes, i))
                 IN /\ ~\E l \in loads' \ before.loads : l.node.id = nodes[i].id
                    /\ (nodes[i].id \in DOMAIN objectMap'
                          => nodes[i].id \in DOMAIN before.objectMap)
                    /\ \A j \in 1..Len(nodes) :
                         j # i
                         => HeldFor(objectMap', canvasObjects', loads', nodes[j].id)
                              = HeldFor(alone.objectMap, alone.canvasObjects,
                                        alone.loads, nodes[j].id)
      /\ \A l \in loads :
           (\E src \in {"", l.node.url} : loadDone(l, "failed", src))
           => /\ UNCHANGED <<objectMap, canvasObjects>>
              /\ loads' = loads \ {l} ]_vars

\* A run of the effect has met an image with an invalid url placed before a
\* good image: the good one's load was started, and it has since come back and
\* put its drawable on the canvas, while the invalid one has none.
C21_Witness ==
  /\ lastOp = "loadDone" /\ Len(nodes) = 2
  /\ BrokenUrl(nodes[1]) /\ ~BrokenUrl(nodes[2])
  /\ nodes[1].id \notin DOMAIN objectMap
  /\ nodes[2].id \in DOMAIN objectMap

\* C22: a loadProject call changes neither currentProject nor nodes nor the
\* selection nor the history when it starts, nor when it fails; the failure
\* leaves isLoading false and error set to a message, which is the text of the
\* error response or of the thrown API error when there is one; clearError
\* then sets error to null and changes nothing else of the store.
C22_FailedLoadKeepsDocument ==
  [][ /\ (\E pid \in ProjectIds : loadProjectStart(pid))
         => UNCHANGED <<currentProject, nodes, selectedNodeIds, history, historyIndex>>
      /\ \A req \in requests, failure \in LoadFailures :
           loadProjectFailure(req, failure)
           => /\ UNCHANGED <<currentProject, nodes, selectedNodeIds, history, historyIndex>>
              /\ isLoading' = FALSE
              /\ error' # Null
              /\ (failure.kind \in {"response", "ApiError"} /\ failure.error # Undefined
                   => error' = failure.error)
      /\ clearError
         => /\ error' = Null
            /\ UNCHANGED <<currentProject, nodes, selectedNodeIds, history, historyIndex,
                           isLoading, canvasMode, isGenerating>> ]_vars

\* A project failed to load over a document with a selection and a history:
\* the error says what the response said.
C22_Witness ==
  /\ lastOp = "loadProjectFailure" /\ error = "Project not found"
  /\ Len(nodes) = 2 /\ selectedNodeIds # << >> /\ historyIndex = 1
  /\ currentProject = "p1" /\ ~isLoading

\* C23: addNode leaves the existing nodes and the selection as they are and
\* puts one node after them, made of the fields it was given, an id no
\* existing node has and a zIndex equal to the number of nodes there were; the
\* history gets one new entry after the entry it was at, holding the new node
\* collection.
C23_AddNodeAppends ==
  [][ \A inp \in NodeInputs :
        addNode(inp)
        => LET old == Len(nodes)
           IN /\ Len(nodes') = old + 1
              /\ \A i \in 1..old : nodes'[i] = nodes[i]
              /\ nodes'[old + 1].id \notin Ids(nodes)
              /\ nodes'[old + 1].zIndex = old
              /\ \A key \in NodeKeys \ {"id", "zIndex"} : nodes'[old + 1][key] = inp[key]
              /\ selectedNodeIds' = selectedNodeIds
              /\ Len(history') = Min(historyIndex + 2, HistoryLimit)
              /\ historyIndex' = Len(history') - 1
              /\ history'[Len(history')].nodes = nodes'
              /\ (historyIndex + 2 <= HistoryLimit
                   => SubSeq(history', 1, historyIndex + 1)
                        = SubSeq(history, 1, historyIndex + 1)) ]_vars

\* A node was added to a document of one selected node.
C23_Witness ==
  /\ lastOp = "addNode" /\ Len(nodes) = 2
  /\ selectedNodeIds = << nodes[1].id >>
  /\ nodes[2].zIndex = 1 /\ nodes[2].id # nodes[1].id
  /\ historyIndex = 1 /\ history[2].nodes = nodes

AboveOf(i) ==
  { j \in SelectedAt :
      nodes[j].y < nodes[i].y \/ (nodes[j].y = nodes[i].y /\ j < i) }

\* C25: alignNodes('column') with at least 2 selected nodes stacks the
\* selected nodes, taken ascending by y with ties in document order, from the
\* y of the first, each 20 below the bottom edge of the one before it, and
\* gives each of them the mean of their x values.
C25_ColumnLayout ==
  [][ (alignNodes("column") /\ Cardinality(SelectedAt) >= 2)
      => /\ Len(nodes') = Len(nodes)
         /\ \A i \in SelectedAt :
              /\ nodes'[i].id = nodes[i].id
              /\ nodes'[i].y =
                   (IF AboveOf(i) = {} THEN nodes[i].y
                    ELSE LET first == CHOOSE j \in SelectedAt : AboveOf(j) = {}
                         IN nodes[first].y + SumOver(AboveOf(i), "height")
                            + Cardinality(AboveOf(i)) * 20 * Px)
              /\ nodes'[i].x * Cardinality(SelectedAt) = SumOver(SelectedAt, "x") ]_vars

\* A(0,0,50x50) and B(200,100,80x80) aligned in a column: both at x = 100, B at
\* y = 70.
C25_Witness ==
  /\ lastOp = "alignNodes" /\ Len(nodes) = 2
  /\ nodes[1].x = 100 * Px /\ nodes[1].y = 0
  /\ nodes[2].x = 100 * Px /\ nodes[2].y = 70 * Px
  /\ nodes[2].height = 80 * Px

\* C26: selectNode, selectNodes, clearSelection, setZoom, setPan and
\* setCanvasMode leave nodes, history and historyIndex as they are; undo and
\* redo leave zoom and pan as they are; and the history changes only in a step
\* of an operation on the node collection (undo and redo move in it without
\* changing it).
C26_SelectionAndViewNotVersioned ==
  [][ /\ ( \/ \E id \in Ids(nodes), multi \in BOOLEAN : selectNode(id, multi)
           \/ \E ids \in Orderings(Ids(nodes)) : selectNodes(ids)
           \/ clearSelection
           \/ \E z \in ZoomInputs : setZoom(z)
           \/ \E p \in PanInputs : setPan(p)
           \/ \E mode \in CanvasModes : setCanvasMode(mode) )
         => UNCHANGED <<nodes, history, historyIndex>>
      /\ (undo \/ redo) => UNCHANGED <<zoom, pan, history>>
      /\ history' # history => lastOp' \in Capturing ]_vars

\* With the view zoomed and panned and a node picked, an addNode was undone.
C26_Witness ==
  /\ lastOp = "undo" /\ zoom = 120 /\ pan.x = 30 * Px
  /\ Len(history) = 2 /\ historyIndex = 0 /\ Len(nodes) = 1
  /\ selectedNodeIds # << >>

C28_ModeSwitchClearsMultiSelection ==
  [][ (\E mode \in CanvasModes : mode # canvasMode /\ setCanvasMode(mode))
      => Len(selectedNodeIds') <= 1 ]_vars

\* The content load of the image node at position i has failed: the last run of
\* the nodes-sync effect saw the node as it is now, with a url that can be
\* loaded from, and since then every load started for it has come back without
\* putting a drawable on the canvas.
LoadHasFailed(i) ==
  /\ mounted
  /\ nodes[i].type = "image" /\ ~BrokenUrl(nodes[i])
  /\ \E k \in 1..Len(syncLog.seen) : syncLog.seen[k] = nodes[i]
  /\ nodes[i].id \notin DOMAIN objectMap
  /\ ~\E l \in loads : l.node.id = nodes[i].id

\* C29: a run of the nodes-sync effect that follows a change to other nodes
\* starts no load for a node whose content load has failed and whose url is
\* as it was.
C29_NoRetryAfterFailure ==
  [][ (syncNodes /\ syncLog.seen # nodes)
      => \A i \in 1..Len(nodes) :
           LoadHasFailed(i) => ~\E l \in loads' : l.node.id = nodes[i].id ]_vars

\* The ids of a selection, as a set.
Selected(sel) == { sel[k] : k \in 1..Len(sel) }

\* C30: selectNode(id, FALSE) leaves exactly << id >> selected;
\* selectNode(id, TRUE) takes id out of the selection if it is in it, the other
\* ids staying in their order, and otherwise puts it at the end, the other ids
\* staying before it in their order; and a second selectNode(id, TRUE) right
\* after the first brings back the set of ids selected before the first.
C30_SelectNodeToggles ==
  [][ \A id \in Ids(nodes), multi \in BOOLEAN :
        selectNode(id, multi)
        => /\ ~multi => selectedNodeIds' = << id >>
           /\ (multi /\ id \in Selected(selectedNodeIds))
                => \E k \in 1..Len(selectedNodeIds) :
                     /\ selectedNodeIds[k] = id
                     /\ selectedNodeIds' = Without(selectedNodeIds, k)
                     /\ id \notin Selected(selectedNodeIds')
           /\ (multi /\ id \notin Selected(selectedNodeIds))
                => /\ Len(selectedNodeIds') = Len(selectedNodeIds) + 1
                   /\ SubSeq(selectedNodeIds', 1, Len(selectedNodeIds)) = selectedNodeIds
                   /\ selectedNodeIds'[Len(selectedNodeIds')] = id
           /\ multi
                => Selected(selectNodeResult(selectedNodeIds', id, TRUE))
                     = Selected(selectedNodeIds) ]_vars

\* Node 1 was multi-selected while node 2 was selected: it stands behind it.
C30_Witness ==
  /\ lastOp = "selectNode"
  /\ selectedNodeIds = <<2, 1>>

\* C31: in a session in which nodes changes only through the capturing
\* operations, undo and redo, an undo called directly after a capturing
\* operation that left historyIndex >= 1 sets nodes to what they were directly
\* before that operation.
C31_UndoRestoresBefore ==
  [][ (lastOp' \in Capturing /\ historyIndex' >= 1)
      => undoDoc(Doc').nodes = nodes ]_vars

\* A capturing operation was called behind the tail of the history and changed
\* nodes: the undo that follows has something to restore.
C31_Witness ==
  /\ lastOp \in Capturing
  /\ historyIndex >= 1
  /\ pre.historyIndex + 1 < pre.length
  /\ undoDoc(Doc).nodes # nodes

\* C32: the first capturing operation on a store whose history is still empty
\* leaves one entry, the nodes as the operation left them, with
\* historyIndex = 0: the empty collection the store started with is in no
\* entry, and undo called next changes nothing.
C32_FirstOperationNotUndoable ==
  [][ (history = << >> /\ historyIndex = -1 /\ lastOp' \in Capturing)
      => /\ Len(history') = 1
         /\ historyIndex' = 0
         /\ history'[1].nodes = nodes'
         /\ undoDoc(Doc') = Doc' ]_vars

\* The first node was added to a fresh store.
C32_Witness ==
  /\ lastOp = "addNode"
  /\ pre.length = 0 /\ pre.historyIndex = -1
  /\ Len(nodes) = 1
  /\ Len(history) = 1 /\ historyIndex = 0

\* C33: updateNode and deleteNode called with an id that no node has, and
\* duplicateSelected and deleteSelectedNodes called with nothing selected,
\* leave nodes as they are and capture them all the same: the entries after
\* historyIndex go, an entry holding the unchanged nodes, equal to the entry
\* the history was at, is appended, and redo called next changes nothing.
C33_IdleCallsCapture ==
  [][ ( \/ \E id \in TargetIds \ Ids(nodes) :
             (\E u \in UpdateInputs : updateNode(id, u)) \/ deleteNode(id)
        \/ selectedNodeIds = << >> /\ (duplicateSelected \/ deleteSelectedNodes) )
      => LET pushed == Append(SubSeq(history, 1, historyIndex + 1), [nodes |-> nodes])
         IN /\ nodes' = nodes
            /\ history' = IF Len(pushed) > HistoryLimit THEN Tail(pushed) ELSE pushed
            /\ historyIndex' = Len(history') - 1
            /\ historyIndex >= 0 => history'[Len(history')] = history[historyIndex + 1]
            /\ redoDoc(Doc') = Doc' ]_vars

\* duplicateSelected was called with nothing selected after an undo: the
\* entry that redo would have restored is gone, and the last two entries are
\* equal.
C33_Witness ==
  /\ lastOp = "duplicateSelected"
  /\ nodes # << >>
  /\ pre.historyIndex + 1 < pre.length
  /\ Len(history) = pre.historyIndex + 2
  /\ historyIndex = Len(history) - 1
  /\ history[historyIndex + 1] = history[historyIndex]

\* The ids of the image nodes whose url can be loaded from.
ValidImageIds ==
  { nodes[i].id : i \in { j \in 1..Len(nodes) :
                            nodes[j].type = "image" /\ ~BrokenUrl(nodes[j]) } }

\* The ids of the drawables on the canvas.
DrawnIds == { canvasObjects[o].id : o \in DOMAIN canvasObjects }

\* C34: when the nodes change no more and every load comes back with its
\* image, then from some time on, whenever the mounted component has no run of
\* the nodes-sync effect pending and no load in flight, the ids of the drawable
\* map are the ids of the image nodes with a valid url, and so are the ids of
\* the drawables on the canvas.
C34_SurfaceSettles ==
  <>[]( (mounted /\ ~dirty /\ loads = {})
        => (DOMAIN objectMap = ValidImageIds /\ DrawnIds = ValidImageIds) )

\* C35: directly after a run of the nodes-sync effect, every drawable the map
\* holds for a node is selectable exactly when the node is not locked.
C35_SelectableFollowsLocked ==
  lastOp = "syncNodes"
  => \A i \in 1..Len(nodes) :
       nodes[i].id \in DOMAIN objectMap
       => canvasObjects[objectMap[nodes[i].id]].selectable = ~nodes[i].locked

\* C36: isGenerating is TRUE exactly while a generation workflow is in flight:
\* TRUE as long as one is, whichever of several ends first, and FALSE once
\* none is.
C36_GeneratingWhileInFlight ==
  isGenerating = (generations # {})

\* A loadProject call is superseded when another one was made after it and
\* every call made after it has been answered.
Superseded(req) ==
  /\ req.id < nextRequest - 1
  /\ \A q \in requests : q.id <= req.id

\* C37: the project and the nodes shown after a successful response are those
\* of that one response; and when loadProject calls overlap and the response to
\* the later call has arrived first, the successful response to the earlier
\* call does not replace the project and the nodes shown, so that the call
\* made last decides what is shown in the end.
C37_LastRequestWins ==
  /\ [](lastOp = "loadProjectSuccess" => nodes = ProjectNodes(currentProject))
  /\ [][ \A req \in requests :
           (loadProjectSuccess(req) /\ Superseded(req) /\ lastOp = "loadProjectSuccess")
           => (currentProject' = currentProject /\ nodes' = nodes) ]_vars

====
